---------------------------- MODULE Spec2Model ----------------------------
(***************************************************************************)
(* Model of the frontend components of kscalelabs/www:                     *)
(*   - OrderCard        (frontend/src/components/orders/OrderCard.tsx)     *)
(*   - LoginForm        (frontend/src/components/auth/LoginForm.tsx)       *)
(*   - ListingArtifacts (second module of the same file)                   *)
(* Rendering is modelled by the value of the element tree the component    *)
(* returns; asynchronous fetches are modelled by the set of requests in    *)
(* flight.                                                                 *)
(***************************************************************************)
EXTENDS Integers, Sequences, FiniteSets, TLC

VARIABLES
    orderWithProduct,   \* OrderCard: the props of the mounted card
    view,               \* OrderCard: <<>> before the first render, else <<tree>>
    listing_id,         \* ListingArtifacts: props.listing_id
    artifacts,          \* ListingArtifacts: useState value, <<>> is null, else <<response>>
    inflight,           \* ListingArtifacts: GET /artifacts/{listing_id} calls not yet resolved
    alerts,             \* useAlertQueue: errors passed to addErrorAlert, in order
    issued,             \* every GET issued so far, in order (listing ids)
    email,              \* LoginForm: value of the email input, a sequence of characters
    password,           \* LoginForm: value of the password input
    showPassword,       \* LoginForm: useState showPassword
    errors,             \* LoginForm: formState.errors, per field <<>> or <<message>>
    isSubmitted,        \* LoginForm: a submit has been attempted (formState.isSubmitted)
    onSubmitData        \* LoginForm: <<>>, or <<data>> of the latest onSubmit(data) call

orderVars == <<orderWithProduct, view>>
artifactVars == <<listing_id, artifacts, inflight, alerts, issued>>
loginVars == <<email, password, showPassword, errors, isSubmitted, onSubmitData>>
vars == <<orderWithProduct, view, listing_id, artifacts, inflight, alerts, issued,
          email, password, showPassword, errors, isSubmitted, onSubmitData>>

---------------------------------------------------------------------------
(* JavaScript array helpers, 0-based as in the source.                     *)

\* indexOf answering 0 instead of -1 for an absent element
indexOf_zeroWhenAbsent(arr, x) ==
    IF \E i \in DOMAIN arr : arr[i] = x
    THEN (CHOOSE i \in DOMAIN arr :
             arr[i] = x /\ \A j \in DOMAIN arr : arr[j] = x => i <= j) - 1
    ELSE 0

\* Array.prototype.indexOf: first 0-based position of x, -1 when absent
indexOf(arr, x) ==
    IF \E i \in DOMAIN arr : arr[i] = x
    THEN (CHOOSE i \in DOMAIN arr :
             arr[i] = x /\ \A j \in DOMAIN arr : arr[j] = x => i <= j) - 1
    ELSE -1

\* Array.prototype.includes
includes(arr, x) == \E i \in DOMAIN arr : arr[i] = x

\* Array.prototype.slice(from, to) for 0 <= from <= to
slice(arr, from, to) ==
    LET hi == IF to < Len(arr) THEN to ELSE Len(arr)
    IN  SubSeq(arr, from + 1, hi)

\* JavaScript truthiness of a string-or-null field; NullValue stands for null
NullValue == "<null>"
truthy(x) == x # "" /\ x # NullValue

---------------------------------------------------------------------------
(* LoginForm (LoginForm.tsx, lines 1-72)                                   *)

MaxEmailLen == 5      \* longest email value typed
MaxPasswordLen == 1   \* longest password value typed

EmailChars == { "a", "@", "." }
PasswordChars == { "p" }

\* positions of character c in the value v
positionsOf(v, c) == { i \in DOMAIN v : v[i] = c }

\* LoginSchema's email rule: one "@" with a non-empty local part before it and
\* a domain after it whose labels, separated by ".", are at least two and
\* all non-empty
WellFormedEmail(v) ==
    /\ Cardinality(positionsOf(v, "@")) = 1
    /\ LET at == CHOOSE i \in DOMAIN v : v[i] = "@"
           dots == { i \in positionsOf(v, ".") : i > at }
       IN  /\ at > 1
           /\ dots # {}
           /\ \A i \in dots : i > at + 1 /\ i < Len(v) /\ (i + 1) \notin dots

\* LoginSchema applied to one field: <<>> when it passes, else <<message>>
LoginSchemaField(field, v) ==
    IF field = "email"
    THEN IF Len(v) > 0 /\ WellFormedEmail(v) THEN << >>
         ELSE << << "LoginSchema", "email" >> >>
    ELSE IF Len(v) > 0 THEN << >>
         ELSE << << "LoginSchema", "password" >> >>

\* zodResolver(LoginSchema) applied to the form values
LoginResolver(e, p) ==
    [ email    |-> LoginSchemaField("email", e),
      password |-> LoginSchemaField("password", p) ]

NoErrors == [ email |-> << >>, password |-> << >> ]

\* the ErrorMessage elements the form renders beneath the fields
LoginFormErrorMessages ==
    [ email    |-> errors.email,
      password |-> errors.password ]

\* useForm / useState at mount: empty inputs, password hidden, no errors
LoginFormInit ==
    /\ email = << >>
    /\ password = << >>
    /\ showPassword = FALSE
    /\ errors = NoErrors
    /\ isSubmitted = FALSE
    /\ onSubmitData = << >>

\* register("email") onChange: the user types one more character; once a
\* submit has been attempted the changed field is validated again
TypeEmail(c) ==
    /\ Len(email) < MaxEmailLen
    /\ email' = Append(email, c)
    /\ errors' = IF isSubmitted
                 THEN [ errors EXCEPT !.email = LoginSchemaField("email", email') ]
                 ELSE errors
    /\ UNCHANGED <<password, showPassword, isSubmitted, onSubmitData>>

\* register("email") onChange: the user empties the field
ClearEmail ==
    /\ email # << >>
    /\ email' = << >>
    /\ errors' = IF isSubmitted
                 THEN [ errors EXCEPT !.email = LoginSchemaField("email", email') ]
                 ELSE errors
    /\ UNCHANGED <<password, showPassword, isSubmitted, onSubmitData>>

\* register("password") onChange: one more character
TypePassword(c) ==
    /\ Len(password) < MaxPasswordLen
    /\ password' = Append(password, c)
    /\ errors' = IF isSubmitted
                 THEN [ errors EXCEPT
                          !.password = LoginSchemaField("password", password') ]
                 ELSE errors
    /\ UNCHANGED <<email, showPassword, isSubmitted, onSubmitData>>

\* register("password") onChange: the user empties the field
ClearPassword ==
    /\ password # << >>
    /\ password' = << >>
    /\ errors' = IF isSubmitted
                 THEN [ errors EXCEPT
                          !.password = LoginSchemaField("password", password') ]
                 ELSE errors
    /\ UNCHANGED <<email, showPassword, isSubmitted, onSubmitData>>

\* FaEye / FaEyeSlash onClick
TogglePassword ==
    /\ showPassword' = ~showPassword
    /\ UNCHANGED <<email, password, errors, isSubmitted, onSubmitData>>

\* the stub submit handler: console.log(data)
onSubmit(data) == onSubmitData' = << data >>

\* SubmitLogin with the form wired straight to onSubmit, without the resolver
SubmitLogin_noResolver ==
    /\ isSubmitted' = TRUE
    /\ errors' = NoErrors
    /\ onSubmitData' = << [ email |-> email, password |-> password ] >>
    /\ UNCHANGED <<email, password, showPassword>>

\* the form's submit event: handleSubmit(onSubmit) runs the resolver and
\* calls onSubmit only when it reports no error
SubmitLogin ==
    /\ isSubmitted' = TRUE
    /\ errors' = LoginResolver(email, password)
    /\ IF LoginResolver(email, password) = NoErrors
       THEN onSubmit([ email |-> email, password |-> password ])
       ELSE UNCHANGED onSubmitData
    /\ UNCHANGED <<email, password, showPassword>>

---------------------------------------------------------------------------
(* OrderCard.tsx                                                           *)

\* orderStatuses with "shipped" and "delivered" listed in the wrong order
orderStatuses_swapped ==
    << "processing", "in_development", "being_assembled", "delivered",
       "shipped", "cancelled", "refunded", "failed" >>

orderStatuses ==
    << "processing", "in_development", "being_assembled", "shipped",
       "delivered", "cancelled", "refunded", "failed" >>

\* activeStatuses with "cancelled" listed as well
activeStatuses_withCancelled ==
    << "processing", "in_development", "being_assembled", "shipped",
       "cancelled" >>

\* activeStatuses with "delivered" listed as well
activeStatuses_withDelivered ==
    << "processing", "in_development", "being_assembled", "shipped",
       "delivered" >>

activeStatuses ==
    << "processing", "in_development", "being_assembled", "shipped" >>

redStatuses == << "cancelled", "refunded", "failed" >>

\* imported from lib/utils/formatString; its body is not part of the
\* component, so its result is kept as the symbolic application
normalizeStatus(status) == << "normalizeStatus", status >>

\* imported from lib/utils/formatNumber; kept symbolic likewise
formatPrice(amount) == << "formatPrice", amount >>

currentStatusIndex(order) == indexOf(orderStatuses, order.status)

isRedStatus(order) == includes(redStatuses, order.status)

showStatusBar(order) == includes(activeStatuses, order.status)

getStatusColor(order, status) ==
    IF isRedStatus(order) THEN "bg-red-500"
    ELSE IF includes(activeStatuses, status) \/ status = "delivered"
         THEN "bg-primary-9"
         ELSE "bg-gray-300"

\* getTextColor without the isRedStatus branch
getTextColor_noRed(order, status) ==
    IF includes(activeStatuses, status) \/ status = "delivered"
    THEN "text-primary-9"
    ELSE "text-gray-600"

getTextColor(order, status) ==
    IF isRedStatus(order) THEN "text-red-600"
    ELSE IF includes(activeStatuses, status) \/ status = "delivered"
         THEN "text-primary-9"
         ELSE "text-gray-600"

\* stepGlyph with index <= currentStatusIndex in place of <
stepGlyph_inclusive(order, index) ==
    IF index <= indexOf(orderStatuses, order.status) THEN "svg-check"
    ELSE ToString(index + 1)

\* glyph inside step circle number index (0-based): the check mark svg or
\* the text of index + 1
stepGlyph(order, index) ==
    IF index < currentStatusIndex(order) THEN "svg-check"
    ELSE ToString(index + 1)

\* one step of the five-step indicator (circle and caption)
stepCircle(order, status, index) ==
    [ key         |-> status,
      circleClass |-> IF index <= currentStatusIndex(order)
                      THEN getStatusColor(order, status)
                      ELSE "bg-gray-300",
      glyph       |-> stepGlyph(order, index),
      labelClass  |-> IF index <= currentStatusIndex(order)
                      THEN getTextColor(order, status)
                      ELSE "text-gray-600",
      label       |-> normalizeStatus(status) ]

\* one fifth of the connected bar beneath the circles
barSegment(order, status, index) ==
    [ key       |-> status,
      className |-> IF index <= currentStatusIndex(order)
                    THEN getStatusColor(order, status)
                    ELSE "bg-gray-300",
      roundedL  |-> (index = 0),
      roundedR  |-> (index = 4),
      width     |-> "20%",
      marginRight |-> IF index < 4 THEN "1px" ELSE "0" ]

\* the block guarded by showStatusBar: <<>> when not rendered
statusBar(order) ==
    IF showStatusBar(order)
    THEN LET shown == slice(orderStatuses, 0, 5)
         IN  << [ circles |-> [ i \in DOMAIN shown |->
                                  stepCircle(order, shown[i], i - 1) ],
                  bar     |-> [ i \in DOMAIN shown |->
                                  barSegment(order, shown[i], i - 1) ] ] >>
    ELSE << >>

\* terminalMessage without the separate copy for "failed"
terminalMessage_sameCopy(order) ==
    IF includes(redStatuses, order.status)
    THEN << [ className |-> "text-red-600",
              text      |-> << "This order has been ",
                               << "normalizeStatus", order.status >>, "." >> ] >>
    ELSE << >>

\* the paragraph guarded by isRedStatus: <<>> when not rendered
terminalMessage(order) ==
    IF isRedStatus(order)
    THEN << [ className |-> "text-red-600",
              text      |-> IF order.status = "failed"
                            THEN << "This order has failed." >>
                            ELSE << "This order has been ",
                                    normalizeStatus(order.status), "." >> ] >>
    ELSE << >>

\* the shipping address block
shippingBlock(order) ==
    << order.shipping_name, order.shipping_address_line1 >>
    \o (IF truthy(order.shipping_address_line2)
        THEN << order.shipping_address_line2 >> ELSE << >>)
    \o << << order.shipping_city, ", ", order.shipping_state, " ",
             order.shipping_postal_code >>,
          order.shipping_country >>

\* the product image, <<>> when not rendered
productImage(product) ==
    IF Len(product.images) > 0
    THEN << [ src |-> product.images[1], alt |-> product.name ] >>
    ELSE << >>

\* the element tree returned by the component
OrderCard(props) ==
    LET order == props.order
        product == props.product
    IN  [ title           |-> product.name,
          statusLabel     |-> [ className |-> getTextColor(order, order.status),
                                text      |-> normalizeStatus(order.status) ],
          orderId         |-> order.id,
          price           |-> formatPrice(order.amount),
          statusBar       |-> statusBar(order),
          terminalMessage |-> terminalMessage(order),
          shipping        |-> shippingBlock(order),
          image           |-> productImage(product) ]

---------------------------------------------------------------------------
(* Inputs of OrderCard                                                     *)

KnownStatuses == { orderStatuses[i] : i \in DOMAIN orderStatuses }
UnknownStatuses == { "on_hold", "" }
Statuses == KnownStatuses \cup UnknownStatuses

Line2Values == { NullValue, "", "Suite 4" }
ImageLists == { << >>, << "img-1" >>, << "img-1", "img-2" >> }

Orders ==
    [ id : { "order-1" },
      status : Statuses,
      amount : { 1999 },
      shipping_name : { "Ada" },
      shipping_address_line1 : { "1 Main St" },
      shipping_address_line2 : Line2Values,
      shipping_city : { "Palo Alto" },
      shipping_state : { "CA" },
      shipping_postal_code : { "94301" },
      shipping_country : { "US" } ]

Products == [ name : { "Stompy" }, images : ImageLists ]

OrdersWithProducts == [ order : Orders, product : Products ]


\* the card is not on screen: no props, nothing rendered
OrderCardIdle ==
    /\ orderWithProduct = << >>
    /\ view = << >>

\* the parent mounts the card with props p; React renders it
MountOrderCard(p) ==
    /\ view = << >>
    /\ orderWithProduct = << p >>
    /\ view' = << OrderCard(p) >>
    /\ UNCHANGED orderWithProduct

\* the parent passes new props p; React renders the card again
RerenderOrderCard(p) ==
    /\ view # << >>
    /\ orderWithProduct' = << p >>
    /\ view' = << OrderCard(p) >>

InitOrder ==
    /\ \E p \in OrdersWithProducts : orderWithProduct = << p >>
    /\ view = << >>
    /\ listing_id = NullValue
    /\ artifacts = << >>
    /\ inflight = {}
    /\ alerts = << >>
    /\ issued = << >>
    /\ LoginFormInit

NextOrder ==
    \/ \E p \in OrdersWithProducts : MountOrderCard(p) /\ UNCHANGED <<artifactVars, loginVars>>
    \/ \E p \in OrdersWithProducts : RerenderOrderCard(p) /\ UNCHANGED <<artifactVars, loginVars>>

SpecOrder == InitOrder /\ [][NextOrder]_vars

---------------------------------------------------------------------------
(* ListingArtifacts (LoginForm.tsx, lines 73-182)                          *)

MaxFetches == 3      \* GET requests issued during one run of the model
MaxArtifacts == 2    \* longest artifact list the backend returns

Listings == { "listing-A", "listing-B" }
ArtifactTypes == { "image", "urdf" }

\* ListArtifactsResponse bodies the backend can return for listing l: the
\* artifacts of a listing carry ids of that listing
ServerResponses(l) ==
    { [ artifacts |-> [ i \in 1..n |->
                          [ artifact_id   |-> << l, i >>,
                            artifact_type |-> t[i],
                            description   |-> << "description", l, i >> ] ] ] :
        n \in 0..MaxArtifacts, t \in [ 1..MaxArtifacts -> ArtifactTypes ] }

\* error bodies the backend can return for listing l
ServerErrors(l) == { [ detail |-> "request failed", listing_id |-> l ] }

EmptyCarouselItem(loading) ==
    [ kind    |-> "EmptyCarouselItem",
      content |-> IF loading THEN "Spinner" ELSE "No artifacts" ]

\* ArtifactItem rendering every artifact as an image
ArtifactItem_allImages(artifact, key) ==
    [ kind    |-> "Carousel.Item",
      key     |-> key,
      content |-> [ kind    |-> "ImageComponent",
                    imageId |-> artifact.artifact_id,
                    size    |-> "large",
                    caption |-> "caption" ],
      caption |-> artifact.description ]

\* one Carousel.Item of the populated carousel
ArtifactItem(artifact, key) ==
    [ kind    |-> "Carousel.Item",
      key     |-> key,
      content |-> IF artifact.artifact_type = "image"
                  THEN [ kind    |-> "ImageComponent",
                         imageId |-> artifact.artifact_id,
                         size    |-> "large",
                         caption |-> "caption" ]
                  ELSE [ kind |-> "p",
                         text |-> << "Unhandled artifact type: ",
                                     artifact.artifact_type >> ],
      caption |-> artifact.description ]

\* the children of the Carousel for state value a (<<>> is null)
CarouselItems(a) ==
    IF a = << >> \/ Len(a[1].artifacts) = 0
    THEN << EmptyCarouselItem(TRUE) >>
    ELSE [ i \in DOMAIN a[1].artifacts |->
             ArtifactItem(a[1].artifacts[i], i - 1) ]

\* CarouselControls with length > 0 in place of length > 1
CarouselControls_atLeastOne(a) == a # << >> /\ Len(a[1].artifacts) > 0

\* the controls prop of the Carousel
CarouselControls(a) == a # << >> /\ Len(a[1].artifacts) > 1

\* the element tree the component returns in the current state
ListingArtifactsView ==
    [ controls |-> CarouselControls(artifacts),
      items    |-> CarouselItems(artifacts) ]

\* the effect body: fetchArtifacts() issues GET /artifacts/{l} and suspends
fetchArtifacts(l) ==
    /\ inflight' = inflight \cup { [ req |-> Len(issued) + 1, listing_id |-> l ] }
    /\ issued' = Append(issued, l)

\* ChangeListingId when the effect does not depend on listing_id: no new GET
ChangeListingId_noRefetch(l) ==
    /\ listing_id # NullValue
    /\ l # listing_id
    /\ Len(issued) < MaxFetches
    /\ listing_id' = l
    /\ UNCHANGED <<artifacts, alerts, inflight, issued>>

\* the parent passes a different listing_id: the component renders again with
\* its state kept, and the effect depending on [listing_id] runs
ChangeListingId(l) ==
    /\ listing_id # NullValue
    /\ l # listing_id
    /\ Len(issued) < MaxFetches
    /\ listing_id' = l
    /\ fetchArtifacts(l)
    /\ UNCHANGED <<artifacts, alerts>>

\* FetchResolve that drops the response of a request for another listing
FetchResolve_guarded(r, data) ==
    /\ r \in inflight
    /\ inflight' = inflight \ { r }
    /\ artifacts' = IF r.listing_id = listing_id THEN << data >> ELSE artifacts
    /\ UNCHANGED <<listing_id, alerts, issued>>

\* the GET of request r resolves with { data }: the else branch
FetchResolve(r, data) ==
    /\ r \in inflight
    /\ inflight' = inflight \ { r }
    /\ artifacts' = << data >>
    /\ UNCHANGED <<listing_id, alerts, issued>>

\* the GET of request r resolves with { error }: the if branch
FetchReject(r, error) ==
    /\ r \in inflight
    /\ inflight' = inflight \ { r }
    /\ alerts' = Append(alerts, error)
    /\ UNCHANGED <<listing_id, artifacts, issued>>

\* the component has been mounted with a listing id: useState(null), and the
\* effect has run once
InitArtifacts ==
    /\ listing_id \in Listings
    /\ artifacts = << >>
    /\ inflight = { [ req |-> 1, listing_id |-> listing_id ] }
    /\ issued = << listing_id >>
    /\ alerts = << >>
    /\ OrderCardIdle
    /\ LoginFormInit

\* the ListingArtifacts component is not mounted
ListingArtifactsIdle ==
    /\ listing_id = NullValue
    /\ artifacts = << >>
    /\ inflight = {}
    /\ alerts = << >>
    /\ issued = << >>

InitLogin ==
    /\ LoginFormInit
    /\ OrderCardIdle
    /\ ListingArtifactsIdle

NextLogin ==
    \/ \E c \in EmailChars : TypeEmail(c) /\ UNCHANGED <<orderVars, artifactVars>>
    \/ ClearEmail /\ UNCHANGED <<orderVars, artifactVars>>
    \/ \E c \in PasswordChars : TypePassword(c) /\ UNCHANGED <<orderVars, artifactVars>>
    \/ ClearPassword /\ UNCHANGED <<orderVars, artifactVars>>
    \/ TogglePassword /\ UNCHANGED <<orderVars, artifactVars>>
    \/ SubmitLogin /\ UNCHANGED <<orderVars, artifactVars>>

SpecLogin == InitLogin /\ [][NextLogin]_vars

NextArtifacts ==
    \/ \E l \in Listings : ChangeListingId(l) /\ UNCHANGED <<orderVars, loginVars>>
    \/ \E r \in inflight : \E data \in ServerResponses(r.listing_id) :
          FetchResolve(r, data) /\ UNCHANGED <<orderVars, loginVars>>
    \/ \E r \in inflight : \E error \in ServerErrors(r.listing_id) :
          FetchReject(r, error) /\ UNCHANGED <<orderVars, loginVars>>

SpecArtifacts == InitArtifacts /\ [][NextArtifacts]_vars

---------------------------------------------------------------------------
(* Properties of OrderCard, checked under SpecOrder                        *)

\* the forward progress sequence of the order lifecycle
ForwardSequence ==
    << "processing", "in_development", "being_assembled", "shipped",
       "delivered" >>

TerminalNegative == { "cancelled", "refunded", "failed" }

CompleteColor == "bg-primary-9"
RedClasses == { "text-red-600", "bg-red-500" }

Rendered == view # << >>
CardOrder == orderWithProduct[1].order
CardStatus == orderWithProduct[1].order.status
BarShown == Rendered /\ view[1].statusBar # << >>
MessageShown == Rendered /\ view[1].terminalMessage # << >>

\* every className carried by an element of the rendered tree t
ViewClasses(t) ==
    { t.statusLabel.className }
    \cup { t.terminalMessage[i].className : i \in DOMAIN t.terminalMessage }
    \cup UNION { { t.statusBar[b].circles[i].circleClass,
                   t.statusBar[b].circles[i].labelClass,
                   t.statusBar[b].bar[i].className } :
                 b \in DOMAIN t.statusBar, i \in 1..5 }

\* C1: for every status of the forward sequence the progress index computed
\* for a rendered card equals the status's 0-based position in the sequence
C1_ProgressIndexIsPosition ==
    Rendered =>
        \A i \in DOMAIN ForwardSequence :
            CardStatus = ForwardSequence[i] =>
                currentStatusIndex(CardOrder) = i - 1

C1_Witness ==
    /\ Rendered
    /\ CardStatus = "shipped"
    /\ currentStatusIndex(CardOrder) = 3

\* C2: the progress bar is rendered if and only if the status is one of the
\* five statuses of the forward sequence
C2_BarIffForward ==
    Rendered => (BarShown <=> includes(ForwardSequence, CardStatus))

\* C3: for status "delivered" all five progress segments are rendered as
\* complete, and neither red styling nor the terminal message is rendered
C3_DeliveredAllComplete ==
    (Rendered /\ CardStatus = "delivered") =>
        /\ BarShown
        /\ \A i \in 1..5 :
              /\ view[1].statusBar[1].circles[i].circleClass = CompleteColor
              /\ view[1].statusBar[1].bar[i].className = CompleteColor
        /\ ViewClasses(view[1]) \cap RedClasses = {}
        /\ ~MessageShown

\* C4 as stated: segment i is coloured complete iff i <= current index, every
\* complete segment shows the check mark, every incomplete one its ordinal
\* i + 1, and the bar uses the same colouring
C4_CompleteShowsCheck ==
    BarShown =>
        LET idx == indexOf(ForwardSequence, CardStatus)
        IN  \A i \in 0..4 :
              LET c == view[1].statusBar[1].circles[i + 1]
              IN  /\ (c.circleClass = CompleteColor) <=> (i <= idx)
                  /\ (c.circleClass = CompleteColor) => c.glyph = "svg-check"
                  /\ (c.circleClass # CompleteColor) => c.glyph = ToString(i + 1)
                  /\ view[1].statusBar[1].bar[i + 1].className = c.circleClass

\* C4 amended: segment i is coloured complete iff i <= current index, and the
\* bar uses the same colouring; a segment shows the check mark iff
\* i < current index, and otherwise (the current segment included) its
\* ordinal i + 1
C4_CheckOnlyBeforeCurrent ==
    BarShown =>
        LET idx == indexOf(ForwardSequence, CardStatus)
        IN  \A i \in 0..4 :
              LET c == view[1].statusBar[1].circles[i + 1]
              IN  /\ (c.circleClass = CompleteColor) <=> (i <= idx)
                  /\ (c.circleClass # CompleteColor) => c.circleClass = "bg-gray-300"
                  /\ (i < idx) => c.glyph = "svg-check"
                  /\ (i >= idx) => c.glyph = ToString(i + 1)
                  /\ view[1].statusBar[1].bar[i + 1].className = c.circleClass

C4_Witness ==
    /\ BarShown
    /\ CardStatus = "being_assembled"
    /\ view[1].statusBar[1].circles[2].glyph = "svg-check"
    /\ view[1].statusBar[1].circles[3].circleClass = CompleteColor
    /\ view[1].statusBar[1].circles[3].glyph = "3"
    /\ view[1].statusBar[1].circles[4].glyph = "4"

\* C5: for cancelled, refunded and failed the bar is hidden and a terminal
\* message is shown, "This order has failed." for failed and the different
\* "This order has been <normalized status>." for the other two; for every
\* other status no terminal message is shown
C5_TerminalMessage ==
    Rendered =>
        /\ (CardStatus \in TerminalNegative) => (~BarShown /\ MessageShown)
        /\ (CardStatus \notin TerminalNegative) => ~MessageShown
        /\ (CardStatus = "failed") =>
              view[1].terminalMessage[1].text = << "This order has failed." >>
        /\ (CardStatus \in { "cancelled", "refunded" }) =>
              /\ view[1].terminalMessage[1].text =
                    << "This order has been ", normalizeStatus(CardStatus), "." >>
              /\ view[1].terminalMessage[1].text # << "This order has failed." >>

C5_Witness ==
    /\ Rendered
    /\ CardStatus = "failed"
    /\ ~BarShown
    /\ view[1].terminalMessage[1].text = << "This order has failed." >>

\* C6: the status label is red, and some rendered element is red, if and only
\* if the status is cancelled, refunded or failed; for any other status,
\* known or not, no rendered element carries a red class
C6_RedIffTerminalNegative ==
    Rendered =>
        /\ (view[1].statusLabel.className = "text-red-600")
              <=> (CardStatus \in TerminalNegative)
        /\ (ViewClasses(view[1]) \cap RedClasses # {})
              <=> (CardStatus \in TerminalNegative)

C6_Witness ==
    /\ Rendered
    /\ CardStatus = "refunded"
    /\ view[1].statusLabel.className = "text-red-600"

C6_WitnessUnknown ==
    /\ Rendered
    /\ CardStatus = "on_hold"
    /\ ViewClasses(view[1]) \cap RedClasses = {}

---------------------------------------------------------------------------
(* Properties of ListingArtifacts, checked under SpecArtifacts             *)

Loading == artifacts = << >>
ShowsSpinner ==
    \E i \in DOMAIN ListingArtifactsView.items :
        /\ ListingArtifactsView.items[i].kind = "EmptyCarouselItem"
        /\ ListingArtifactsView.items[i].content = "Spinner"
ShowsNoArtifacts ==
    \E i \in DOMAIN ListingArtifactsView.items :
        /\ ListingArtifactsView.items[i].kind = "EmptyCarouselItem"
        /\ ListingArtifactsView.items[i].content = "No artifacts"

\* the listing whose artifacts are on display, if any are
DisplayedListings ==
    UNION { { artifacts[a].artifacts[i].artifact_id[1] :
                i \in DOMAIN artifacts[a].artifacts } : a \in DOMAIN artifacts }

\* the request issued for the current value of listing_id
CurrentRequest == [ req |-> Len(issued), listing_id |-> listing_id ]

\* C7: once the fetch has resolved with an empty artifact list the carousel
\* shows the "No artifacts" message and not the spinner; the spinner is shown
\* only while artifacts is unset
C7_EmptyShowsMessage ==
    /\ (~Loading /\ Len(artifacts[1].artifacts) = 0) =>
          (ShowsNoArtifacts /\ ~ShowsSpinner)
    /\ ShowsSpinner => Loading

\* C8: a change of the listing identifier unsets artifacts, so that no
\* artifacts of the previous listing stay on display, and starts a fetch for
\* the new identifier
C8_ChangeReentersLoading ==
    [][ listing_id' # listing_id =>
          /\ artifacts' = << >>
          /\ \E r \in inflight' \ inflight : r.listing_id = listing_id' ]_vars

\* C9: a failing fetch adds exactly one alert, starts no fetch, and leaves
\* artifacts unset; artifacts stays unset for as long as the listing identifier
\* keeps the value whose fetch failed
C9_FailureLeavesLoading ==
    /\ [][ alerts' # alerts =>
             /\ Len(alerts') = Len(alerts) + 1
             /\ inflight' \subseteq inflight
             /\ issued' = issued
             /\ artifacts' = << >> ]_vars
    /\ [][ ( /\ Loading
             /\ CurrentRequest \notin inflight
             /\ listing_id' = listing_id ) => artifacts' = << >> ]_vars

\* C10: a change of the listing identifier cancels no fetch and starts one
\* more, and every fetch that resolves successfully stores its response
\* whatever the current listing identifier is; so the response for an earlier
\* identifier can arrive last and stay on display
C10_NoCancelNoGuard ==
    /\ [][ listing_id' # listing_id =>
             /\ inflight \subseteq inflight'
             /\ Cardinality(inflight') = Cardinality(inflight) + 1 ]_vars
    /\ [][ \A r \in inflight :
             (r \notin inflight' /\ alerts' = alerts) =>
                 /\ artifacts' # << >>
                 /\ artifacts'[1] \in ServerResponses(r.listing_id) ]_vars

\* listing-A was requested, then listing-B; both fetches resolved, B's first,
\* and the component shows A's artifacts under listing_id B
C10_Witness ==
    /\ issued = << "listing-A", "listing-B" >>
    /\ listing_id = "listing-B"
    /\ inflight = {}
    /\ alerts = << >>
    /\ DisplayedListings = { "listing-A" }

\* C11: the carousel has navigation controls if and only if the fetched
\* artifact list has at least two entries; with one entry, with none, and
\* while loading there are no controls
C11_ControlsIffAtLeastTwo ==
    /\ ListingArtifactsView.controls <=>
          (~Loading /\ Len(artifacts[1].artifacts) >= 2)
    /\ Loading => ~ListingArtifactsView.controls
    /\ (~Loading /\ Len(artifacts[1].artifacts) <= 1) =>
          ~ListingArtifactsView.controls

\* a single image was fetched: populated carousel without controls
C11_Witness ==
    /\ ~Loading
    /\ Len(artifacts[1].artifacts) = 1
    /\ artifacts[1].artifacts[1].artifact_type = "image"
    /\ ~ListingArtifactsView.controls

C11_WitnessTwo ==
    /\ ~Loading
    /\ Len(artifacts[1].artifacts) = 2
    /\ ListingArtifactsView.controls

---------------------------------------------------------------------------
(* Further properties of OrderCard, checked under SpecOrder                *)

\* the 0-based positions of the rendered step circles coloured complete
CompleteSegments ==
    IF BarShown
    THEN { i \in 0..4 :
             view[1].statusBar[1].circles[i + 1].circleClass = CompleteColor }
    ELSE {}

\* C12: a status that is none of the eight known ones has progress index -1
\* and no segment complete; the card is rendered all the same, without
\* progress bar, without red styling and without terminal message
C12_UnknownStatusDegrades ==
    (orderWithProduct # << >> /\ CardStatus \notin KnownStatuses) =>
        /\ currentStatusIndex(CardOrder) = -1
        /\ ENABLED (MountOrderCard(orderWithProduct[1]) \/
                    RerenderOrderCard(orderWithProduct[1]))
        /\ Rendered =>
              /\ CompleteSegments = {}
              /\ ~BarShown
              /\ ~MessageShown
              /\ ViewClasses(view[1]) \cap RedClasses = {}
              /\ view[1].statusLabel.className = "text-gray-600"

C12_Witness ==
    /\ Rendered
    /\ CardStatus = "on_hold"
    /\ currentStatusIndex(CardOrder) = -1
    /\ view[1].statusBar = << >>
    /\ view[1].terminalMessage = << >>

\* C17: the progress bar and the terminal message are never rendered
\* together, and each of the eight known statuses is in exactly one of the
\* display modes progressing (bar shown), terminal-negative (message shown)
\* and terminal-positive (delivered)
C17_ExactlyOneDisplayMode ==
    Rendered =>
        /\ ~(BarShown /\ MessageShown)
        /\ (CardStatus \in KnownStatuses) =>
              LET modes == { m \in { "progressing", "terminal-negative",
                                     "terminal-positive" } :
                               \/ m = "progressing" /\ BarShown
                               \/ m = "terminal-negative" /\ MessageShown
                               \/ m = "terminal-positive" /\ CardStatus = "delivered" }
              IN  Cardinality(modes) = 1

C17_Witness ==
    /\ Rendered
    /\ CardStatus = "delivered"
    /\ ~BarShown
    /\ ~MessageShown

C17_WitnessNegative ==
    /\ Rendered
    /\ CardStatus = "cancelled"
    /\ ~BarShown
    /\ MessageShown

\* C18: whenever the progress bar is rendered the current status index is
\* between 0 and 3: the first segment is complete, the fifth is not, the
\* complete segments are a prefix of the five, and no segment is red
C18_BarIndexAtMostThree ==
    BarShown =>
        LET idx == currentStatusIndex(CardOrder)
        IN  /\ idx \in 0..3
            /\ 0 \in CompleteSegments
            /\ 4 \notin CompleteSegments
            /\ CompleteSegments = 0..idx
            /\ \A i \in 1..5 :
                  /\ view[1].statusBar[1].circles[i].circleClass \notin RedClasses
                  /\ view[1].statusBar[1].circles[i].labelClass \notin RedClasses
                  /\ view[1].statusBar[1].bar[i].className \notin RedClasses

C18_Witness ==
    /\ BarShown
    /\ CardStatus = "shipped"
    /\ CompleteSegments = 0..3
    /\ view[1].statusBar[1].bar[5].className = "bg-gray-300"

---------------------------------------------------------------------------
(* Further properties of ListingArtifacts, checked under SpecArtifacts     *)

\* C15: every value the listing identifier takes, at mount or by a change,
\* issues exactly one GET for that value; a fetch that completes either
\* stores its data or adds one alert, never both; and while the identifier
\* has never changed, leaving the loading state happens at most once
C15_OneFetchPerIdentifier ==
    /\ [](/\ Len(issued) >= 1
          /\ issued[Len(issued)] = listing_id
          /\ \A i \in 1..(Len(issued) - 1) : issued[i] # issued[i + 1]
          /\ \A r \in inflight : r.req \in 1..Len(issued)
                                 /\ issued[r.req] = r.listing_id)
    /\ [][ /\ listing_id' # listing_id =>
                /\ issued' = Append(issued, listing_id')
                /\ inflight' = inflight \cup
                      { [ req |-> Len(issued'), listing_id |-> listing_id' ] }
           /\ listing_id' = listing_id =>
                (issued' = issued /\ inflight' \subseteq inflight) ]_vars
    /\ [][ \A r \in inflight : r \notin inflight' =>
              /\ inflight' = inflight \ { r }
              /\ \/ /\ alerts' = alerts
                    /\ artifacts' # << >>
                    /\ artifacts'[1] \in ServerResponses(r.listing_id)
                 \/ /\ Len(alerts') = Len(alerts) + 1
                    /\ alerts'[Len(alerts')] \in ServerErrors(r.listing_id)
                    /\ SubSeq(alerts', 1, Len(alerts)) = alerts
                    /\ artifacts' = artifacts ]_vars
    /\ [][ (Len(issued') = 1 /\ ~Loading) => artifacts' = artifacts ]_vars

\* two identifier values were taken, two GETs were issued, one completed with
\* data and one with an alert
C15_Witness ==
    /\ issued = << "listing-A", "listing-B" >>
    /\ inflight = {}
    /\ Len(alerts) = 1
    /\ ~Loading

\* C16: in the populated state the carousel has one item per artifact, in
\* the order fetched; an item shows the image with the artifact's id iff the
\* artifact's type is "image" and otherwise the placeholder naming the type;
\* every item's caption is the artifact's description
C16_OneItemPerArtifact ==
    (~Loading /\ Len(artifacts[1].artifacts) > 0) =>
        LET arts == artifacts[1].artifacts
            items == ListingArtifactsView.items
        IN  /\ Len(items) = Len(arts)
            /\ \A i \in DOMAIN arts :
                  /\ items[i].kind = "Carousel.Item"
                  /\ items[i].caption = arts[i].description
                  /\ (items[i].content.kind = "ImageComponent")
                        <=> (arts[i].artifact_type = "image")
                  /\ (arts[i].artifact_type = "image") =>
                        items[i].content.imageId = arts[i].artifact_id
                  /\ (arts[i].artifact_type # "image") =>
                        /\ items[i].content.kind = "p"
                        /\ items[i].content.text =
                              << "Unhandled artifact type: ", arts[i].artifact_type >>

C16_Witness ==
    /\ ~Loading
    /\ Len(artifacts[1].artifacts) = 2
    /\ artifacts[1].artifacts[1].artifact_type = "urdf"
    /\ artifacts[1].artifacts[2].artifact_type = "image"
    /\ ListingArtifactsView.items[1].content.kind = "p"
    /\ ListingArtifactsView.items[2].content.kind = "ImageComponent"
    /\ ListingArtifactsView.items[2].caption = artifacts[1].artifacts[2].description

---------------------------------------------------------------------------
(* Properties of LoginForm, checked under SpecLogin                        *)

\* both fields filled in and the email well-formed
ValidCredentials ==
    /\ Len(email) > 0
    /\ WellFormedEmail(email)
    /\ Len(password) > 0

\* a step that leaves the inputs and the eye toggle alone: a submit attempt
SubmitAttempt ==
    /\ email' = email
    /\ password' = password
    /\ showPassword' = showPassword

\* C13: onSubmit is called only with values that passed validation (email
\* non-empty and well-formed, password non-empty); a submit attempt with an
\* invalid field does not call it and leaves an inline error under exactly
\* the invalid fields; an attempt with valid values calls it
C13_SubmitOnlyWhenValid ==
    /\ [][ onSubmitData' # onSubmitData =>
             /\ SubmitAttempt
             /\ ValidCredentials
             /\ onSubmitData' = << [ email |-> email, password |-> password ] >> ]_vars
    /\ [][ (SubmitAttempt /\ ~ValidCredentials) =>
             /\ onSubmitData' = onSubmitData
             /\ (errors'.email # << >>) <=> ~(Len(email) > 0 /\ WellFormedEmail(email))
             /\ (errors'.password # << >>) <=> (Len(password) = 0) ]_vars
    /\ [][ (SubmitAttempt /\ ValidCredentials) =>
             /\ onSubmitData' = << [ email |-> email, password |-> password ] >>
             /\ errors' = NoErrors ]_vars
    /\ [](~isSubmitted => (onSubmitData = << >> /\ errors = NoErrors))

\* a submit was attempted with a malformed email and an empty password: both
\* errors are shown and onSubmit has not run
C13_Witness ==
    /\ isSubmitted
    /\ email = << "a", "@", "a" >>
    /\ password = << >>
    /\ LoginFormErrorMessages.email # << >>
    /\ LoginFormErrorMessages.password # << >>
    /\ onSubmitData = << >>

\* onSubmit has run with valid values
C13_WitnessAccepted ==
    /\ onSubmitData = << [ email    |-> << "a", "@", "a", ".", "a" >>,
                           password |-> << "p" >> ] >>
    /\ errors = NoErrors

=============================================================================
